---- MODULE Spec2Model ----
(***************************************************************************)
(* Model of the download-and-verify engine of interactive-model-downloader *)
(* (src/civitai/mod.rs, src/civitai/download_task.rs, src/cache_db.rs,     *)
(* src/civitai/meta.rs).                                                   *)
(*                                                                         *)
(* One execution of the program downloads files of a model version with   *)
(* two files (download_from_civitai).  The cache database and the disk     *)
(* are persistent: the execution starts from what earlier executions left. *)
(* A file content is the sequence of the chunks written to it; a hash      *)
(* string is a pair <<digest, letter case>>.                               *)
(*                                                                         *)
(* The retried download of the cover image (retry_notify under the policy  *)
(* of src/downloader.rs) is explored on its own, for every configuration   *)
(* of the backoff, by RetrySpec.  StreamSpec is a first execution against  *)
(* a server whose chunks differ, and StoreSpec is two threads calling      *)
(* store_civitai_model_file_location at the same time.                     *)
(***************************************************************************)
EXTENDS Integers, Sequences, FiniteSets, TLC

(* ------------------------------ bounds --------------------------------- *)
MaxPrior == 1       \* downloads recorded by earlier executions
MaxChunks == 2      \* chunks a response stream can deliver
MaxTicks == 4530    \* ticks after which no execution of the retried task
                    \* starts

\* configuration.backoff.max_retry as read by make_backoff_policy
max_retry == 3

(* ------------------------------ values --------------------------------- *)
\* values standing for "absent", of the type of the values they replace
NoFile == <<"">>
NoHash == <<-1, "none">>
NoLength == -1
NoResponse == [status |-> 0, content_length |-> NoLength]
NoError == [stage |-> "none", kind |-> "none"]

\* the payload of a chunk of a response body (bodies differ in length)
Bytes == {"x"}
\* two payloads: bodies differ in the order of their chunks as well
StreamBytes == {"x", "y"}
FileIds == {1, 2}
\* ModelVersionFile.name of each file of the version
FileName(f) == IF f = 1 THEN "m.safetensors" ELSE "n.safetensors"

\* destination directories the user can give with --output
Dests == {"/a", "b"}
\* Path::canonicalize of a directory: a relative one is resolved against the
\* current directory
CanonDir(d) == IF d = "b" THEN "/cwd/b" ELSE d
CanonDirs == {CanonDir(d) : d \in Dests}
\* PathBuf::join
Join(d, name) == <<d, name>>
\* Path::canonicalize of a file path
Canonicalize(p) == <<CanonDir(p[1]), p[2]>>
IsCanonical(p) == p[1] \in {"/a", "/cwd/b"}
CanonPaths == {Join(d, FileName(f)) : d \in CanonDirs, f \in FileIds}

(* ------------------------------ hashing -------------------------------- *)
RECURSIVE Digest(_)
\* blake3::Hasher over the content of a file: injective on the bounded contents
Digest(content) ==
    IF content = <<>> THEN 0
    ELSE Digest(SubSeq(content, 1, Len(content) - 1)) * 3
         + (IF content[Len(content)] = "x" THEN 1 ELSE 2)

\* Hash::to_hex: lower-case hexadecimal
ToHex(d) == <<d, "lower">>
\* str::to_uppercase
ToUppercase(h) == <<h[1], "upper">>

\* meta::blake3_hash of an existing file
Blake3Hash(content) == ToUppercase(ToHex(Digest(content)))

\* the content the files of earlier downloads have on disk
PriorContent == <<"x">>
\* hashes the catalog can declare for a file: the hash of that content in
\* lower or upper case, or the hash of another content
DeclaredBlake3 ==
    {NoHash, ToHex(Digest(PriorContent)), Blake3Hash(PriorContent),
     Blake3Hash(<<"x", "x">>)}
DeclaredSha256 == {NoHash, <<1, "sha256">>}

\* ModelVersionFile::match_by_blake3
MatchByBlake3(declared, computed) ==
    /\ declared # NoHash
    /\ ToUppercase(declared) = ToUppercase(computed)

(* ---------------------------- cache keys ------------------------------- *)
FileIdKey(f) == <<"civitai:model:file:id", f>>
Sha256Key(h) == <<"civitai:model:file:sha256", h>>
Blake3Key(h) == <<"civitai:model:file:blake3", h>>

VARIABLES
    catalog,        \* files of the selected version: declared hashes, primary
    payloads,       \* what the chunks the server sends can carry
    db,             \* CACHE_DB: key -> location list, for the keys present
    durable,        \* what of CACHE_DB has reached the disk (survives a crash)
    disk,           \* canonical path -> content or NoFile
    sidecar,        \* canonical path of a model file -> saved .blake3 text
    pc,             \* position of download_from_civitai
    selected,       \* file ids still to be processed by the loop
    cur,            \* file id being processed (0: none)
    dest,           \* destination_path of this run
    response,       \* [status, content_length] of the executed request
    received,       \* the chunks download_stream has yielded, in order
    downloaded_size,\* the counter of the streaming loop
    position,       \* last position given to the progress bar
    checksum,       \* blake3_checksum computed for the current file
    check_passed,   \* outcome of match_by_blake3 for the current file
    target_meta_filename, \* name to be handed to readme generation
    result,         \* result of the last run: "none", "ok", "err"
    error,          \* [stage, kind] of the failure that ended the last run
    readme_name,    \* file name received by save_model_version_readme
    \* history of the processing of the current file
    attempts,       \* requests executed for the current file
    prompted,       \* decide_proceeding_or_not for the file: "not_asked",
                    \* "proceed" or "declined"
    db0,            \* db when the processing of the file started
    disk0,          \* disk when the processing of the file started
    model_file_name,\* value download_single_model_file returned
    exhausted,      \* the response stream returned None
    flushed,        \* file.flush() returned Ok
    hashed,         \* blake3_hash returned Ok
    store_called,   \* store_civitai_model_file_location was entered
    store_result,   \* what it returned: "none" (not yet), "ok" or "err"
    read_failed,    \* the cache operation just made for the file (the
                    \* lookup or the store) had a db.get return Err
    outcome,        \* "pending", "skipped", "downloaded" or "failed"
    \* the retried download of the cover image (download_task.rs 153-184)
    config,         \* configuration.backoff: initial_interval, multiplier,
                    \* max_retry
    max_timeout_secs, \* the argument of make_backoff_policy
    policy,         \* the ExponentialBackoff: current_interval and
                    \* max_elapsed_time, in ticks
    elapsed,        \* ticks since the policy was reset
    tries,          \* executions of the task
    notified,       \* calls of notify_op
    notice,         \* the arguments of the call of notify_op that started
                    \* the wait in progress
    wait,           \* length of the sleep in progress, in ticks
    last_error,     \* what made the last execution of the task fail
    rpc,            \* position of retry_notify: "idle", "attempt", "failed",
                    \* "sleeping", "succeeded", "gave_up" or "aborted"
    \* concurrent calls of store_civitai_model_file_location (cache_db.rs
    \* 133-189)
    lock,           \* the thread holding the CACHE_DB mutex, or NoCaller
    calls           \* per calling thread: position, arguments and locals

vars == <<catalog, payloads, db, durable, disk, sidecar, pc, selected, cur, dest,
          response, received, downloaded_size, position, checksum, check_passed,
          target_meta_filename, result, error, readme_name,
          attempts, prompted, db0, disk0, model_file_name, exhausted,
          flushed, hashed, store_called, store_result, read_failed, outcome,
          config, max_timeout_secs, policy, elapsed, tries, notified, notice,
          wait, last_error, rpc, lock, calls>>

\* the state of the retried cover image download
retry_vars == <<config, max_timeout_secs, policy, elapsed, tries, notified,
                notice, wait, last_error, rpc>>
\* the state of the concurrent stores
store_vars == <<lock, calls>>
\* the state of download_from_civitai outside of them
download_vars == <<catalog, payloads, db, durable, disk, sidecar, pc, selected, cur,
                   dest, response, received, downloaded_size, position,
                   checksum, check_passed, target_meta_filename, result, error,
                   readme_name, attempts, prompted, db0, disk0,
                   model_file_name, exhausted, flushed, hashed, store_called,
                   store_result, read_failed, outcome>>

persistent == <<catalog, payloads, db, durable, disk, sidecar>>
history == <<attempts, prompted, db0, disk0, model_file_name, exhausted,
             flushed, hashed, store_called, store_result, read_failed,
             outcome>>
\* what the store leaves behind it
stored == <<store_called, store_result, read_failed>>
\* what is fixed while one file is processed
started == <<prompted, db0, disk0>>
transfer == <<response, received, downloaded_size, position, checksum,
              check_passed>>

\* target_file_path of download_single_model_file
TargetFilePath == Join(dest, FileName(cur))
Target == Canonicalize(TargetFilePath)
Exists(p) == disk[p] # NoFile

\* primary_file_id of download_from_civitai
PrimaryFileId ==
    IF \E f \in FileIds : catalog[f].primary
    THEN CHOOSE f \in FileIds :
            /\ catalog[f].primary
            /\ \A g \in FileIds : catalog[g].primary => f <= g
    ELSE 1

(* ----------------------- src/cache_db.rs ------------------------------- *)
\* result of retreive_civitai_model_locations_by_blake3: Err, Ok(None) or
\* Ok(Some(locations)); get_ok is the outcome of db.get
RetreiveByBlake3(d, hash, get_ok) ==
    IF ~get_ok THEN [ok |-> FALSE, found |-> FALSE, locations |-> <<>>]
    ELSE IF Blake3Key(hash) \in DOMAIN d
    THEN [ok |-> TRUE, found |-> TRUE, locations |-> d[Blake3Key(hash)]]
    ELSE [ok |-> TRUE, found |-> FALSE, locations |-> <<>>]

\* the keys store_civitai_model_file_location maintains for a file, in the
\* order it writes them: file_id_key, file_sha256_key, file_blake3_key.  The
\* hash keys are built from model_version_file.sha256_hash() and
\* .blake3_hash(), the hashes the catalog declares (model.rs 168-181); the
\* checksum the caller computed takes no part in them.
StoreKeysOf(c, f) ==
    <<FileIdKey(f)>>
    \o (IF c[f].sha256 # NoHash THEN <<Sha256Key(c[f].sha256)>> ELSE <<>>)
    \o (IF c[f].blake3 # NoHash THEN <<Blake3Key(c[f].blake3)>> ELSE <<>>)

\* one "if let Ok(Some(record)) = db.get(key) { push; insert } else
\* { insert new_record }" block; get_ok is the outcome of db.get
UpsertRecord(d, k, location, get_ok) ==
    IF get_ok /\ k \in DOMAIN d
    THEN [d EXCEPT ![k] = Append(@, location)]
    ELSE (k :> <<location>>) @@ d

LocationStrAsGiven(p) == p

\* lines 138-139: location = file_location.canonicalize()?, rendered as text
LocationStr(p) == Canonicalize(p)

FlushNothing(memory, on_disk) == on_disk

\* line 186, db.flush() returning Ok: everything written so far is on disk
Flush(memory, on_disk) == memory

RECURSIVE StoreFirst(_, _, _, _, _)
\* the database after the blocks of the first n keys have run
StoreFirst(d, keys, n, location, read_err) ==
    IF n = 0 THEN d
    ELSE UpsertRecord(StoreFirst(d, keys, n - 1, location, read_err),
                      keys[n], location, keys[n] \notin read_err)

\* cache_db.rs 133-189, store_civitai_model_file_location, run under the
\* CACHE_DB lock for the file f of the version c and the path p.  read_err is the set of keys
\* whose db.get returns Err; fail_at = 0 when every insert and the flush
\* succeed, i in 1..n when the insert of the i-th key fails, n + 1 when
\* db.flush fails.  The result is the database the process sees afterwards.
StoreLocationOf(c, d, f, p, read_err, fail_at) ==
    LET keys == StoreKeysOf(c, f)
        n == Len(keys)
        location_str == LocationStr(p)
    IN  IF fail_at \in 1..n
        THEN StoreFirst(d, keys, fail_at - 1, location_str, read_err)
        ELSE StoreFirst(d, keys, n, location_str, read_err)

(* -------------------------- src/downloader.rs -------------------------- *)
\* time is counted in ticks of a fifth of a second, the grain of the
\* randomization factor 0.2 (line 50) on a whole number of seconds
TicksPerSec == 5
\* the argument download_model_version_cover_image gives make_backoff_policy
cover_image_timeout == 300
\* max_interval of ExponentialBackoffBuilder::default(), in seconds
default_max_interval == 60

\* values configuration.backoff can hold (u64, f32, u32)
InitialIntervals == {1, 2}
Multipliers == {1, 2}
MaxRetries == {1, 2, 3}
\* values of max_timeout_secs
MaxTimeoutSecs == {1, cover_image_timeout}
Configs ==
    [initial_interval : InitialIntervals, multiplier : Multipliers,
     max_retry : MaxRetries]

RECURSIVE Powi(_, _)
\* f32::powi for a whole base and an exponent >= 0
Powi(m, e) == IF e = 0 THEN 1 ELSE m * Powi(m, e - 1)

\* the f32 value 0.0 / 0.0
NaN == -1

\* lines 41-42: initial_interval * (1 - multiplier^(max_retry - 1))
\* / (1 - multiplier), in f32: 0.0 / 0.0 when the multiplier is 1
WaitTimes(cfg) ==
    IF 1 - cfg.multiplier = 0
    THEN NaN
    ELSE (cfg.initial_interval * (1 - Powi(cfg.multiplier, cfg.max_retry - 1)))
         \div (1 - cfg.multiplier)

\* line 43
MaxTimeouts(cfg, timeout_secs) == timeout_secs * cfg.max_retry

\* line 44: (wait_times + max_timeouts).ceil() as u64, in seconds; the sum
\* with a NaN is a NaN, which the cast turns into 0
MaxElapsedTime(cfg, timeout_secs) ==
    IF WaitTimes(cfg) = NaN THEN 0
    ELSE WaitTimes(cfg) + MaxTimeouts(cfg, timeout_secs)

NoPolicy == [current_interval |-> 0, max_elapsed_time |-> 0]
\* max_elapsed_time of a policy that has none
NoMaxElapsedTime == -1

MakeBackoffPolicyUnbounded(cfg, timeout_secs) ==
    [current_interval |-> cfg.initial_interval * TicksPerSec,
     max_elapsed_time |-> NoMaxElapsedTime]

\* lines 46-52: the policy as built, in ticks, with
\* with_max_elapsed_time(Some(max_elapsed_time))
MakeBackoffPolicy(cfg, timeout_secs) ==
    [current_interval |-> cfg.initial_interval * TicksPerSec,
     max_elapsed_time |-> MaxElapsedTime(cfg, timeout_secs) * TicksPerSec]

\* the retried download is not running
\* next_backoff returning None
NoWait == -1
\* no call of notify_op is in progress
NoNotice == [error |-> "none", wait |-> NoWait]

RetryIdle ==
    /\ policy = NoPolicy
    /\ elapsed = 0
    /\ tries = 0
    /\ notified = 0
    /\ notice = NoNotice
    /\ wait = 0
    /\ last_error = "none"
    /\ rpc = "idle"

(* ------------- src/cache_db.rs: threads calling the store ------------- *)
Callers == {1, 2}
NoCaller == 0
\* the directory each thread stores a file of
CallerDest(t) == IF t = 1 THEN "/a" ELSE "b"
\* db.get returned Ok(None) or Err: no record to extend
NoRecord == <<>>
NoCall == [at |-> "none", file |-> 0, key |-> 0, got |-> NoRecord,
           read_err |-> FALSE, result |-> "none"]

StoreIdle ==
    /\ lock = NoCaller
    /\ calls = [t \in Callers |-> NoCall]

(* ------------------------ the persisted state -------------------------- *)
\* the files of the version as the catalog describes them: file 1 is the
\* primary file and declares a sha256 whenever it declares a blake3, file 2
\* declares a blake3 only
Catalogs ==
    {c \in [FileIds -> [blake3 : DeclaredBlake3, sha256 : DeclaredSha256,
                        primary : BOOLEAN]] :
        /\ c[1].primary /\ ~c[2].primary
        /\ (c[1].sha256 = NoHash) = (c[1].blake3 = NoHash)
        /\ c[2].sha256 = NoHash
        /\ c[2].blake3 = Blake3Hash(PriorContent)}

\* sequences of at most MaxPrior earlier successful downloads <<file, dest>>
PriorDownloads ==
    UNION {[1..n -> FileIds \X Dests] : n \in 0..MaxPrior}

\* the files the earlier downloads wrote
PriorPaths(prior) ==
    {Canonicalize(Join(prior[i][2], FileName(prior[i][1]))) :
        i \in 1..Len(prior)}

RECURSIVE PriorDb(_, _, _)
\* the database left by the first n earlier downloads, none of which failed
PriorDb(c, prior, n) ==
    IF n = 0 THEN <<>>
    ELSE StoreLocationOf(c, PriorDb(c, prior, n - 1), prior[n][1],
                         Join(prior[n][2], FileName(prior[n][1])), {}, 0)

InitPersisted ==
    /\ catalog \in Catalogs
    /\ \E prior \in PriorDownloads :
          /\ db = PriorDb(catalog, prior, Len(prior))
          /\ durable = PriorDb(catalog, prior, Len(prior))
          /\ sidecar = [p \in CanonPaths |->
                        IF p \in PriorPaths(prior)
                        THEN Blake3Hash(PriorContent) ELSE NoHash]
          \* the user may have removed downloaded files since
          /\ \E removed \in SUBSET PriorPaths(prior) :
                disk = [p \in CanonPaths |->
                           IF p \in PriorPaths(prior) \ removed
                           THEN PriorContent ELSE NoFile]

InitLocals ==
    /\ pc = "idle"
    /\ selected = <<>>
    /\ cur = 0
    /\ dest = "/a"
    /\ response = NoResponse
    /\ received = <<>>
    /\ downloaded_size = 0
    /\ position = 0
    /\ checksum = NoHash
    /\ check_passed = FALSE
    /\ target_meta_filename = ""
    /\ result = "none"
    /\ error = NoError
    /\ readme_name = "<none>"
    /\ attempts = 0
    /\ prompted = "not_asked"
    /\ db0 = db
    /\ disk0 = disk
    /\ model_file_name = ""
    /\ exhausted = FALSE
    /\ flushed = FALSE
    /\ hashed = FALSE
    /\ store_called = FALSE
    /\ store_result = "none"
    /\ read_failed = FALSE
    /\ outcome = "pending"

Init ==
    /\ InitPersisted
    /\ payloads = Bytes
    /\ InitLocals
    /\ config = [initial_interval |-> 1, multiplier |-> 2,
                 max_retry |-> max_retry]
    /\ max_timeout_secs = cover_image_timeout
    /\ RetryIdle
    /\ StoreIdle

StoreKeys(f) == StoreKeysOf(catalog, f)
StoreLocation(d, f, p, read_err, fail_at) ==
    StoreLocationOf(catalog, d, f, p, read_err, fail_at)

(* ------------------ src/civitai/mod.rs, selections.rs ------------------ *)
\* what select_model_version_files can return: the chosen ids in file order
Selections == {<<>>, <<1>>, <<2>>, <<1, 2>>}

FirstLocation(locations) == IF Len(locations) > 0 THEN 1 ELSE 0

\* locations.iter().find(|loc| loc.exists()): index of the first location
\* that exists on disk, 0 when there is none
FirstExistsLocation(locations) ==
    IF \E i \in 1..Len(locations) : Exists(locations[i])
    THEN CHOOSE i \in 1..Len(locations) :
            /\ Exists(locations[i])
            /\ \A j \in 1..(i - 1) : ~Exists(locations[j])
    ELSE 0

\* the condition under which line 90 calls decide_proceeding_or_not
AsksUser(f, get_ok) ==
    LET hash == catalog[f].blake3
        file_locations == RetreiveByBlake3(db, hash, get_ok)
    IN  /\ hash # NoHash
        /\ file_locations.ok
        /\ file_locations.found
        /\ FirstExistsLocation(file_locations.locations) # 0

SkipsFileInverted(asked, answer) == asked /\ answer

\* lines 89-92: "if let Some(file_path) = first_exists_location &&
\* !decide_proceeding_or_not(file_path) { continue; }"; answer is what
\* decide_proceeding_or_not returns when it is called
SkipsFile(asked, answer) == asked /\ ~answer

ResetTransfer ==
    /\ response' = NoResponse
    /\ received' = <<>>
    /\ downloaded_size' = 0
    /\ position' = 0
    /\ checksum' = NoHash
    /\ check_passed' = FALSE

\* an error leaves download_from_civitai through "?": the locals of
\* download_single_model_file are gone
Fail(stage, kind) ==
    /\ ResetTransfer
    /\ pc' = "done"
    /\ result' = "err"
    /\ error' = [stage |-> stage, kind |-> kind]
    /\ outcome' = IF pc \in {"loop", "readme"} THEN outcome ELSE "failed"

\* download_from_civitai is called (commands/download.rs) and reaches the loop
StartRun ==
    /\ pc = "idle"
    /\ \E s \in Selections : selected' = s
    /\ \E d \in Dests : dest' = d
    /\ pc' = "loop"
    /\ cur' = 0
    /\ target_meta_filename' = ""
    /\ readme_name' = "<none>"
    /\ result' = "none"
    /\ error' = NoError
    /\ ResetTransfer
    /\ attempts' = 0
    /\ prompted' = "not_asked"
    /\ db0' = db
    /\ disk0' = disk
    /\ model_file_name' = ""
    /\ exhausted' = FALSE
    /\ flushed' = FALSE
    /\ hashed' = FALSE
    /\ store_called' = FALSE
    /\ store_result' = "none"
    /\ read_failed' = FALSE
    /\ outcome' = "pending"
    /\ UNCHANGED persistent
    /\ UNCHANGED <<retry_vars, store_vars>>

\* mod.rs 81-95: the next file id is taken and the cache is consulted
CheckCache ==
    /\ pc = "loop"
    /\ selected # <<>>
    /\ cur' = Head(selected)
    /\ selected' = Tail(selected)
    /\ ResetTransfer
    /\ attempts' = 0
    /\ exhausted' = FALSE
    /\ flushed' = FALSE
    /\ hashed' = FALSE
    /\ store_called' = FALSE
    /\ store_result' = "none"
    /\ db0' = db
    /\ disk0' = disk
    /\ model_file_name' = ""
    /\ \E get_ok \in BOOLEAN, answer \in BOOLEAN :
          /\ read_failed' = (catalog[Head(selected)].blake3 # NoHash /\ ~get_ok)
          /\ prompted' = IF ~AsksUser(Head(selected), get_ok) THEN "not_asked"
                         ELSE IF answer THEN "proceed" ELSE "declined"
          /\ IF SkipsFile(AsksUser(Head(selected), get_ok), answer)
             THEN /\ outcome' = "skipped"
                  /\ pc' = "loop"
             ELSE /\ outcome' = "pending"
                  /\ pc' = "request"
    /\ UNCHANGED <<persistent, dest, target_meta_filename,
                   result, error, readme_name>>
    /\ UNCHANGED <<retry_vars, store_vars>>

(* -------------------- src/civitai/download_task.rs --------------------- *)
Unclamped(a, b) == a

\* std::cmp::min
Min(a, b) == IF a <= b THEN a ELSE b

\* HTTP statuses a response can carry
Statuses == {200, 404}
IsSuccess(status) == status \in 200..299

\* errors of the transient class (timeout, connection reset)
TransientKinds == {"connection_reset", "timeout"}

HasLengthAlways(len) == TRUE

\* lines 48-50: response.content_length().ok_or(..)? passes a Some only
HasLength(len) == len # NoLength

\* lines 41-50: the request is built and executed, the content length read
SendRequest ==
    /\ pc = "request"
    /\ \/ /\ Fail("build", "malformed_url")
          /\ UNCHANGED attempts
       \/ /\ attempts' = attempts + 1
          /\ \E kind \in TransientKinds : Fail("execute", kind)
       \/ /\ attempts' = attempts + 1
          /\ \E status \in Statuses, len \in {NoLength} \cup 1..MaxChunks :
                IF ~HasLength(len)
                THEN Fail("content_length", "no_length")
                ELSE /\ response' = [status |-> status, content_length |-> len]
                     /\ pc' = "create"
                     /\ UNCHANGED <<received, downloaded_size, position,
                                    checksum, check_passed, result, error,
                                    outcome>>
    /\ read_failed' = FALSE
    /\ UNCHANGED <<persistent, selected, cur, dest, target_meta_filename,
                   readme_name, started, model_file_name, exhausted, flushed,
                   hashed, store_called, store_result>>
    /\ UNCHANGED <<retry_vars, store_vars>>

CreateKeeping(d, p) == IF d[p] = NoFile THEN [d EXCEPT ![p] = <<>>] ELSE d

\* File::create: the file exists and is empty afterwards
Create(d, p) == [d EXCEPT ![p] = <<>>]

\* lines 58-60: the destination is created (truncated), the counter reset
\* and the body stream opened
CreateFile ==
    /\ pc = "create"
    /\ \/ /\ disk' = Create(disk, Target)
          /\ downloaded_size' = 0
          /\ received' = <<>>
          /\ pc' = "stream"
          /\ UNCHANGED <<response, position, checksum, check_passed, result,
                         error, outcome>>
       \/ /\ Fail("create", "disk")
          /\ UNCHANGED disk
    /\ UNCHANGED <<catalog, payloads, db, durable, sidecar, selected, cur, dest,
                   target_meta_filename, readme_name, attempts, started,
                   model_file_name, exhausted, flushed, hashed, stored>>
    /\ UNCHANGED <<retry_vars, store_vars>>

WritePrepended(d, p, chunk) == [d EXCEPT ![p] = <<chunk>> \o @]

\* file.write_all(&chunk)
WriteAll(d, p, chunk) == [d EXCEPT ![p] = Append(@, chunk)]

\* lines 62-66 with Some(Ok(chunk)): the chunk is written, then the counter
\* and the progress bar advance
StreamChunk ==
    /\ pc = "stream"
    /\ Len(disk[Target]) < MaxChunks
    /\ \E chunk \in payloads :
          \/ /\ received' = Append(received, chunk)
             /\ disk' = WriteAll(disk, Target, chunk)
             /\ downloaded_size' =
                    Min(downloaded_size + 1, response.content_length)
             /\ position' = downloaded_size'
             /\ UNCHANGED <<pc, response, checksum, check_passed, result,
                            error, outcome>>
          \/ /\ Fail("write", "disk")
             /\ UNCHANGED disk
    /\ UNCHANGED <<catalog, payloads, db, durable, sidecar, selected, cur, dest,
                   target_meta_filename, readme_name, attempts, started,
                   model_file_name, exhausted, flushed, hashed, stored>>
    /\ UNCHANGED <<retry_vars, store_vars>>

\* line 63 with Some(Err(e)): the stream breaks
StreamError ==
    /\ pc = "stream"
    /\ \E kind \in TransientKinds : Fail("chunk", kind)
    /\ UNCHANGED <<persistent, selected, cur, dest, target_meta_filename,
                   readme_name, attempts, started, model_file_name, exhausted,
                   flushed, hashed, stored>>
    /\ UNCHANGED <<retry_vars, store_vars>>

\* line 62 with None: the loop ends
StreamEnd ==
    /\ pc = "stream"
    /\ exhausted' = TRUE
    /\ pc' = "flush"
    /\ UNCHANGED <<persistent, selected, cur, dest, transfer,
                   target_meta_filename, result, error, readme_name, attempts,
                   started, model_file_name, flushed, hashed, stored,
                   outcome>>
    /\ UNCHANGED <<retry_vars, store_vars>>

FlushFileIgnoringError ==
    /\ pc = "flush"
    /\ \E ok \in BOOLEAN : flushed' = ok
    /\ pc' = "hash"
    /\ UNCHANGED <<persistent, selected, cur, dest, transfer,
                   target_meta_filename, result, error, readme_name, attempts,
                   started, model_file_name, exhausted, hashed, stored,
                   outcome>>
    /\ UNCHANGED <<retry_vars, store_vars>>

\* line 68: file.flush()
FlushFile ==
    /\ pc = "flush"
    /\ \/ /\ flushed' = TRUE
          /\ pc' = "hash"
          /\ UNCHANGED <<transfer, result, error, outcome>>
       \/ /\ Fail("flush", "disk")
          /\ UNCHANGED flushed
    /\ UNCHANGED <<persistent, selected, cur, dest, target_meta_filename,
                   readme_name, attempts, started, model_file_name, exhausted,
                   hashed, stored>>
    /\ UNCHANGED <<retry_vars, store_vars>>

\* line 73: the written file is read back and hashed
HashFile ==
    /\ pc = "hash"
    /\ \/ /\ Exists(Target)
          /\ checksum' = Blake3Hash(disk[Target])
          /\ hashed' = TRUE
          /\ pc' = "compare"
          /\ UNCHANGED <<response, received, downloaded_size, position,
                         check_passed, result, error, outcome>>
       \/ /\ Fail("hash", "disk")
          /\ UNCHANGED hashed
    /\ UNCHANGED <<persistent, selected, cur, dest, target_meta_filename,
                   readme_name, attempts, started, model_file_name, exhausted,
                   flushed, stored>>
    /\ UNCHANGED <<retry_vars, store_vars>>

AfterCompareStrict(matched) == IF matched THEN "save_hash" ELSE "fail"

\* what lines 76-80 do with the outcome of the comparison: print a message
AfterCompare(matched) == "save_hash"

\* lines 76-80: the computed hash is compared with the declared one
CompareHash ==
    /\ pc = "compare"
    /\ IF AfterCompare(MatchByBlake3(catalog[cur].blake3, checksum))
          = "save_hash"
       THEN /\ check_passed' = MatchByBlake3(catalog[cur].blake3, checksum)
            /\ pc' = "save_hash"
            /\ UNCHANGED <<response, received, downloaded_size, position,
                           checksum, result, error, outcome>>
       ELSE Fail("compare", "mismatch")
    /\ UNCHANGED <<persistent, selected, cur, dest, target_meta_filename,
                   readme_name, attempts, started, model_file_name, exhausted,
                   flushed, hashed, stored>>
    /\ UNCHANGED <<retry_vars, store_vars>>

\* lines 83-85: save_version_file_hash writes <stem>.blake3 next to the file
SaveVersionFileHash ==
    /\ pc = "save_hash"
    /\ \/ /\ sidecar' = [sidecar EXCEPT ![Target] = ToUppercase(checksum)]
          /\ pc' = "store"
          /\ UNCHANGED <<transfer, result, error, outcome>>
       \/ /\ Fail("save_hash", "disk")
          /\ UNCHANGED sidecar
    /\ UNCHANGED <<catalog, payloads, db, durable, disk, selected, cur, dest,
                   target_meta_filename, readme_name, attempts, started,
                   model_file_name, exhausted, flushed, hashed, stored>>
    /\ UNCHANGED <<retry_vars, store_vars>>

\* the sets of keys whose db.get can fail during one store: none, or one
ReadErrors(keys) ==
    {{}} \cup {{keys[i]} : i \in 1..Len(keys)}

\* a db.get that the store reached returned Err: the store reads the keys
\* in order and stops at the insert that fails
ReadsFailed(f, read_err, fail_at) ==
    \E i \in 1..Len(StoreKeys(f)) :
        /\ StoreKeys(f)[i] \in read_err
        /\ fail_at \in 1..Len(StoreKeys(f)) => i <= fail_at

StoreFailureSwallowed(canon_ok, fail_at) == FALSE

\* the "?" of line 94 and of mod.rs 108: an Err of the store leaves both
\* functions
StoreFailed(canon_ok, fail_at) == ~canon_ok \/ fail_at # 0

\* what can have reached the disk when the store ends: everything after a
\* successful flush (line 186); when an insert or the flush failed, what was
\* there before or, sled flushing in the background, the writes made so far
DurableAfter(d, on_disk, f, p, read_err, fail_at) ==
    IF fail_at = 0
    THEN {Flush(StoreLocation(d, f, p, read_err, fail_at), on_disk)}
    ELSE {on_disk, StoreLocation(d, f, p, read_err, fail_at)}

\* lines 87-94: the location of the downloaded file is stored; the function
\* returns Ok(selected_file.name()) when the store succeeds.  canon_ok is
\* the outcome of canonicalize (line 138 of cache_db.rs), which fails before
\* any key is built
Store ==
    /\ pc = "store"
    /\ store_called' = TRUE
    /\ \E canon_ok \in BOOLEAN,
          read_err \in ReadErrors(StoreKeys(cur)),
          fail_at \in 0..(Len(StoreKeys(cur)) + 1) :
          /\ canon_ok \/ (read_err = {} /\ fail_at = 0)
          /\ db' = IF canon_ok
                   THEN StoreLocation(db, cur, TargetFilePath, read_err,
                                      fail_at)
                   ELSE db
          /\ durable' \in IF canon_ok
                          THEN DurableAfter(db, durable, cur, TargetFilePath,
                                            read_err, fail_at)
                          ELSE {durable}
          /\ store_result' =
                IF ~canon_ok \/ fail_at # 0 THEN "err" ELSE "ok"
          /\ read_failed' =
                (read_failed \/ (canon_ok /\ ReadsFailed(cur, read_err, fail_at)))
          /\ IF StoreFailed(canon_ok, fail_at)
             THEN /\ Fail("store", IF canon_ok THEN "db" ELSE "canonicalize")
                  /\ UNCHANGED model_file_name
             ELSE /\ pc' = "returned"
                  /\ outcome' = "downloaded"
                  /\ model_file_name' = FileName(cur)
                  /\ UNCHANGED <<transfer, result, error>>
    /\ UNCHANGED <<catalog, payloads, disk, sidecar, selected, cur, dest,
                   target_meta_filename, readme_name, attempts, started,
                   exhausted, flushed, hashed>>
    /\ UNCHANGED <<retry_vars, store_vars>>

\* mod.rs 109-111: download_single_model_file has returned, its locals are
\* gone, and the name of the primary file is kept for the readme
KeepFileName ==
    /\ pc = "returned"
    /\ target_meta_filename' =
          IF cur = PrimaryFileId THEN model_file_name
          ELSE target_meta_filename
    /\ pc' = "loop"
    /\ ResetTransfer
    /\ read_failed' = FALSE
    /\ UNCHANGED <<persistent, selected, cur, dest, result, error,
                   readme_name, attempts, started, model_file_name, exhausted,
                   flushed, hashed, store_called, store_result, outcome>>
    /\ UNCHANGED <<retry_vars, store_vars>>

\* the process is killed right before or right after the store; the next
\* process opens CACHE_DB (cache_db.rs 12-27) with what had reached the disk
Crash ==
    /\ pc \in {"store", "returned"}
    /\ db' = durable
    /\ pc' = "done"
    /\ result' = "crashed"
    /\ ResetTransfer
    /\ UNCHANGED <<catalog, payloads, durable, disk, sidecar, selected, cur, dest,
                   target_meta_filename, error, readme_name, history>>
    /\ UNCHANGED <<retry_vars, store_vars>>

\* mod.rs 114-123: after the loop the cover image is downloaded
CoverImage ==
    /\ pc = "loop"
    /\ selected = <<>>
    /\ \/ /\ pc' = "readme"
          /\ UNCHANGED <<result, error, outcome>>
          /\ UNCHANGED transfer
       \/ Fail("cover_image", "download")
    /\ UNCHANGED <<persistent, selected, cur, dest,
                   target_meta_filename, readme_name, attempts, started, model_file_name,
                   exhausted, flushed, hashed, stored>>
    /\ UNCHANGED <<retry_vars, store_vars>>

\* mod.rs 125-148: community images are fetched and the readme is saved
SaveReadme ==
    /\ pc = "readme"
    /\ \/ /\ readme_name' = target_meta_filename
          /\ pc' = "done"
          /\ result' = "ok"
          /\ UNCHANGED <<transfer, error, outcome>>
       \/ /\ \E stage \in {"community_images", "readme"} :
                Fail(stage, "download")
          /\ UNCHANGED readme_name
    /\ UNCHANGED <<persistent, selected, cur, dest,
                   target_meta_filename, attempts, started, model_file_name, exhausted,
                   flushed, hashed, stored>>
    /\ UNCHANGED <<retry_vars, store_vars>>

(* ------- download_task.rs 153-184: the retried cover image task -------- *)
\* what makes the task fail: the request cannot be built (the URL of the
\* image is malformed), cannot be executed, or the body cannot be read
TaskErrors == {"build", "execute", "read_body"}

\* lines 160-171: each error of the task is mapped by
\* backoff::Error::transient
Classify(kind) == "transient"

\* seconds an execution of the task can take: building a request takes
\* none, a network operation fails at once or when the time allowed for an
\* attempt is over
AttemptSecs(kind) == IF kind = "build" THEN {0} ELSE {0, max_timeout_secs}

\* the interval with randomization_factor 0.2 (downloader.rs 50): any value
\* between 80% and 120% of the current interval
RandomizedIntervals(current_interval) ==
    {current_interval - current_interval \div TicksPerSec,
     current_interval,
     current_interval + current_interval \div TicksPerSec}

\* ExponentialBackoff raises the interval by the multiplier up to its
\* max_interval
IncrementCurrentInterval(current_interval, multiplier) ==
    IF current_interval * multiplier >= default_max_interval * TicksPerSec
    THEN default_max_interval * TicksPerSec
    ELSE current_interval * multiplier

\* ExponentialBackoff::next_backoff with the randomized interval r at the
\* time now: None once max_elapsed_time is exceeded or would be exceeded
\* by the wait
NextBackoff(p, now, r) ==
    IF p.max_elapsed_time = NoMaxElapsedTime THEN r
    ELSE IF now > p.max_elapsed_time THEN NoWait
    ELSE IF now + r <= p.max_elapsed_time THEN r
    ELSE NoWait

\* lines 181-182: the policy is built and retry_notify resets it
StartRetry ==
    /\ rpc = "idle"
    /\ policy' = MakeBackoffPolicy(config, max_timeout_secs)
    /\ elapsed' = 0
    /\ rpc' = "attempt"
    /\ UNCHANGED <<config, max_timeout_secs, tries, notified, notice, wait,
                   last_error, download_vars, store_vars>>

\* lines 153-173: the task runs and returns an Err
TaskFails ==
    /\ rpc = "attempt"
    /\ elapsed <= MaxTicks
    /\ tries' = tries + 1
    /\ \E kind \in TaskErrors :
          /\ last_error' = kind
          /\ \E secs \in AttemptSecs(kind) :
                elapsed' = elapsed + secs * TicksPerSec
    /\ rpc' = "failed"
    /\ UNCHANGED <<config, max_timeout_secs, policy, notified, notice, wait,
                   download_vars, store_vars>>

\* lines 153-173: the task runs and returns Ok(image_bytes)
TaskSucceeds ==
    /\ rpc = "attempt"
    /\ elapsed <= MaxTicks
    /\ tries' = tries + 1
    /\ \E secs \in AttemptSecs("execute") :
          elapsed' = elapsed + secs * TicksPerSec
    /\ rpc' = "succeeded"
    /\ UNCHANGED <<config, max_timeout_secs, policy, notified, notice, wait,
                   last_error, download_vars, store_vars>>

NotifiesAlways(next) == TRUE

\* retry_notify calls the notification hook when the policy gave a wait
\* (Some(duration)) and not when it gave none
Notifies(next) == next # NoWait

\* retry_notify after an Err of the task: a permanent error is returned; for
\* a transient one the policy is asked for the next wait, and either
\* notify_op is called with the error and the wait (lines 175-180) and the
\* wait starts, or the error is returned
AfterFailure ==
    /\ rpc = "failed"
    /\ IF Classify(last_error) = "permanent"
       THEN /\ rpc' = "aborted"
            /\ UNCHANGED <<policy, notified, notice, wait>>
       ELSE \E r \in RandomizedIntervals(policy.current_interval) :
               LET next == NextBackoff(policy, elapsed, r)
               IN  /\ policy' =
                         IF /\ policy.max_elapsed_time # NoMaxElapsedTime
                            /\ elapsed > policy.max_elapsed_time
                         THEN policy
                         ELSE [policy EXCEPT !.current_interval =
                                 IncrementCurrentInterval(@,
                                                          config.multiplier)]
                   /\ notified' =
                         IF Notifies(next) THEN notified + 1 ELSE notified
                   /\ notice' =
                         IF Notifies(next)
                         THEN [error |-> last_error, wait |-> next]
                         ELSE NoNotice
                   /\ IF next = NoWait
                      THEN /\ rpc' = "gave_up"
                           /\ UNCHANGED wait
                      ELSE /\ wait' = next
                           /\ rpc' = "sleeping"
    /\ UNCHANGED <<config, max_timeout_secs, elapsed, tries, last_error,
                   download_vars, store_vars>>

\* the wait between two executions of the task
Sleep ==
    /\ rpc = "sleeping"
    /\ elapsed' = elapsed + wait
    /\ wait' = 0
    /\ notice' = NoNotice
    /\ rpc' = "attempt"
    /\ UNCHANGED <<config, max_timeout_secs, policy, tries, notified,
                   last_error, download_vars, store_vars>>

RetryNext ==
    \/ StartRetry
    \/ TaskFails
    \/ TaskSucceeds
    \/ AfterFailure
    \/ Sleep

\* the retried download alone, for every configuration, on an empty cache
RetryInit ==
    /\ catalog = (CHOOSE c \in Catalogs : c[1].blake3 = NoHash)
    /\ payloads = Bytes
    /\ db = <<>>
    /\ durable = <<>>
    /\ disk = [p \in CanonPaths |-> NoFile]
    /\ sidecar = [p \in CanonPaths |-> NoHash]
    /\ InitLocals
    /\ config \in Configs
    /\ max_timeout_secs \in MaxTimeoutSecs
    /\ RetryIdle
    /\ StoreIdle

\* the runtime polls the future of retry_notify until it completes, and
\* every execution of the task ends
RetrySpec == RetryInit /\ [][RetryNext]_vars /\ WF_vars(RetryNext)

Next ==
    \/ StartRun
    \/ CheckCache
    \/ SendRequest
    \/ CreateFile
    \/ StreamChunk
    \/ StreamError
    \/ StreamEnd
    \/ FlushFile
    \/ HashFile
    \/ CompareHash
    \/ SaveVersionFileHash
    \/ Store
    \/ KeepFileName
    \/ Crash
    \/ CoverImage
    \/ SaveReadme

Spec == Init /\ [][Next]_vars

(* ----------- cache_db.rs 133-189 called by two threads ----------------- *)
\* everything but the cache database and the threads
outside_store == <<catalog, payloads, disk, sidecar, pc, selected, cur, dest,
                   response, received, downloaded_size, position, checksum,
                   check_passed, target_meta_filename, result, error,
                   readme_name, attempts, prompted, db0, disk0,
                   model_file_name, exhausted, flushed, hashed, store_called,
                   store_result, read_failed, outcome, retry_vars>>

\* file_location of the call of the thread t
CallLocation(t) == Join(CallerDest(t), FileName(calls[t].file))
\* the key the thread t is at
CallKey(t) == StoreKeys(calls[t].file)[calls[t].key]

\* Mutex::lock returns once no thread holds the mutex
Acquirable(holder) == holder = NoCaller

\* lines 138-158: the location is canonicalized, the keys and the new record
\* are built
StoreEnter(t) ==
    /\ calls[t].at = "idle"
    /\ \E canon_ok \in BOOLEAN :
          calls' = [calls EXCEPT
                      ![t].at = IF canon_ok THEN "lock" ELSE "done",
                      ![t].result = IF canon_ok THEN "none" ELSE "err"]
    /\ UNCHANGED <<db, durable, lock, outside_store>>

\* line 160: CACHE_DB.lock()
Acquire(t) ==
    /\ calls[t].at = "lock"
    /\ Acquirable(lock)
    /\ lock' = t
    /\ calls' = [calls EXCEPT ![t].at = "get", ![t].key = 1]
    /\ UNCHANGED <<db, durable, outside_store>>

\* lines 161, 169, 178: db.get of the key the thread is at
GetRecord(t) ==
    /\ calls[t].at = "get"
    /\ \E get_ok \in BOOLEAN :
          calls' = [calls EXCEPT
                      ![t].at = "insert",
                      ![t].got = IF get_ok /\ CallKey(t) \in DOMAIN db
                                 THEN db[CallKey(t)] ELSE NoRecord,
                      ![t].read_err = @ \/ ~get_ok]
    /\ UNCHANGED <<db, durable, lock, outside_store>>

\* lines 162-166, 170-174, 179-183: the record read is extended, or a new
\* one made, and inserted; an Err of the insert leaves the function and
\* drops the guard
InsertRecord(t) ==
    /\ calls[t].at = "insert"
    /\ LET k == CallKey(t)
           seen == IF calls[t].got = NoRecord THEN <<>>
                   ELSE (k :> calls[t].got)
           record == UpsertRecord(seen, k, LocationStr(CallLocation(t)),
                                  TRUE)[k]
       IN  \/ /\ db' = (k :> record) @@ db
              /\ calls' = [calls EXCEPT
                    ![t].at = IF calls[t].key < Len(StoreKeys(calls[t].file))
                              THEN "get" ELSE "flush",
                    ![t].key = IF calls[t].key < Len(StoreKeys(calls[t].file))
                               THEN @ + 1 ELSE @,
                    ![t].got = NoRecord]
              /\ UNCHANGED lock
           \/ /\ calls' = [calls EXCEPT ![t].at = "done",
                                         ![t].result = "err",
                                         ![t].got = NoRecord]
              /\ lock' = NoCaller
              /\ UNCHANGED db
    /\ UNCHANGED <<durable, outside_store>>

\* lines 186-189: db.flush(), the function returns and the guard is dropped
FlushDb(t) ==
    /\ calls[t].at = "flush"
    /\ \/ /\ durable' = Flush(db, durable)
          /\ calls' = [calls EXCEPT ![t].at = "done", ![t].result = "ok"]
       \/ /\ durable' \in {durable, db}
          /\ calls' = [calls EXCEPT ![t].at = "done", ![t].result = "err"]
    /\ lock' = NoCaller
    /\ UNCHANGED <<db, outside_store>>

StoreNext ==
    \/ \E t \in Callers : StoreEnter(t)
    \/ \E t \in Callers : Acquire(t)
    \/ \E t \in Callers : GetRecord(t)
    \/ \E t \in Callers : InsertRecord(t)
    \/ \E t \in Callers : FlushDb(t)

\* two threads of one process store a file each, on the cache the earlier
\* executions left
StoreInit ==
    /\ InitPersisted
    /\ payloads = Bytes
    /\ InitLocals
    /\ config = [initial_interval |-> 1, multiplier |-> 2,
                 max_retry |-> max_retry]
    /\ max_timeout_secs = cover_image_timeout
    /\ RetryIdle
    /\ lock = NoCaller
    /\ \E files \in [Callers -> FileIds] :
          calls = [t \in Callers |->
                     [NoCall EXCEPT !.at = "idle", !.file = files[t]]]

StoreSpec == StoreInit /\ [][StoreNext]_vars

\* a first execution, on an empty cache and an empty disk, against a server
\* whose chunks differ
StreamInit ==
    /\ catalog \in Catalogs
    /\ payloads = StreamBytes
    /\ db = <<>>
    /\ durable = <<>>
    /\ disk = [p \in CanonPaths |-> NoFile]
    /\ sidecar = [p \in CanonPaths |-> NoHash]
    /\ InitLocals
    /\ config = [initial_interval |-> 1, multiplier |-> 2,
                 max_retry |-> max_retry]
    /\ max_timeout_secs = cover_image_timeout
    /\ RetryIdle
    /\ StoreIdle

StreamSpec == StreamInit /\ [][Next]_vars

TypeOK ==
    /\ pc \in {"idle", "done", "loop", "request", "create", "stream", "flush", "hash",
               "compare", "save_hash", "store", "returned", "readme"}
    /\ result \in {"none", "ok", "err", "crashed"}
    /\ store_result \in {"none", "ok", "err"}
    /\ read_failed \in BOOLEAN
    /\ rpc \in {"idle", "attempt", "failed", "sleeping", "succeeded",
                "gave_up", "aborted"}
    /\ rpc = "attempt" => elapsed <= MaxTicks
    /\ outcome \in {"pending", "skipped", "downloaded", "failed"}
    /\ \A p \in CanonPaths : Exists(p) => Len(disk[p]) <= MaxChunks
    /\ received \in UNION {[1..n -> payloads] : n \in 0..MaxChunks}
    /\ lock \in Callers \cup {NoCaller}
    /\ \A t \in Callers :
          calls[t].at \in {"none", "idle", "lock", "get", "insert", "flush",
                           "done"}

(* ============================== claims ================================= *)
IsPrefix(s, t) == Len(s) <= Len(t) /\ SubSeq(t, 1, Len(s)) = s
Contains(seq, x) == \E i \in 1..Len(seq) : seq[i] = x
\* the list recorded under a key, empty when there is no record
Locations(d, k) == IF k \in DOMAIN d THEN d[k] ELSE <<>>
\* the stages of download_single_model_file that precede the store
PreStoreStages ==
    {"build", "execute", "content_length", "create", "chunk", "write",
     "flush", "hash"}

\* C1: the store is entered only after the stream was read to its end, the
\* file flushed and its hash computed; when the request, a chunk read, a
\* write, the flush or the hashing fails, the cache is as it was before the
\* file was processed.
C1_StoreOnlyAfterCompleteDownload ==
    /\ (store_called \/ db # db0) => (exhausted /\ flushed /\ hashed)
    /\ (result = "err" /\ error.stage \in PreStoreStages) => db = db0

C1_Witness ==
    /\ pc = "returned"
    /\ store_called /\ exhausted /\ flushed /\ hashed
    /\ db # db0

\* C2: a download that fails with a transient network error reaches the
\* caller only after max_retry attempts have been made, and no cache record
\* is created.
C2_TransientFailureIsRetried ==
    (result = "err" /\ error.stage \in {"execute", "chunk"}
        /\ error.kind \in TransientKinds)
    => (attempts >= max_retry /\ db = db0)

\* C3: when the user declines the re-download of a file found in the cache,
\* the file is skipped: no request is issued, the disk and the cache are as
\* they were.
C3_DeclinedFileIsSkipped ==
    prompted = "declined"
    => /\ outcome = "skipped"
       /\ pc \in {"loop", "readme", "done"}
       /\ attempts = 0
       /\ disk = disk0
       /\ db = db0

C3_Witness ==
    /\ prompted = "declined"
    /\ outcome = "skipped"
    /\ \E i \in 1..Len(Locations(db, Blake3Key(catalog[cur].blake3))) :
          Exists(db[Blake3Key(catalog[cur].blake3)][i])

\* every location recorded under the declared hash of the current file was
\* missing from the disk when the processing of the file started
AllLocationsMissing ==
    /\ catalog[cur].blake3 # NoHash
    /\ Blake3Key(catalog[cur].blake3) \in DOMAIN db0
    /\ \A i \in 1..Len(db0[Blake3Key(catalog[cur].blake3)]) :
          disk0[db0[Blake3Key(catalog[cur].blake3)][i]] = NoFile

\* C4: the user is asked only for a file with a declared hash whose record
\* lists a location that exists on disk; when every recorded location is
\* missing the file is downloaded without asking.
C4_AskedOnlyForLiveLocation ==
    cur # 0 =>
       /\ prompted # "not_asked" =>
             /\ catalog[cur].blake3 # NoHash
             /\ Blake3Key(catalog[cur].blake3) \in DOMAIN db0
             /\ \E i \in 1..Len(db0[Blake3Key(catalog[cur].blake3)]) :
                   disk0[db0[Blake3Key(catalog[cur].blake3)][i]] # NoFile
       /\ AllLocationsMissing =>
             /\ prompted = "not_asked"
             /\ outcome # "skipped"

C4_Witness ==
    /\ cur # 0
    /\ AllLocationsMissing
    /\ pc = "request"
    /\ prompted = "not_asked"

\* the catalog declares a hash for the current file and the computed hash
\* does not match it
Mismatch == hashed /\ ~check_passed /\ catalog[cur].blake3 # NoHash

\* C5: after a store for a file whose computed hash differs from the declared
\* one, the hash-indexed record holding the new path is keyed by the computed
\* hash.
C5_RecordKeyedByComputedHash ==
    (pc = "returned" /\ Mismatch)
    => /\ Blake3Key(checksum) \in DOMAIN db
       /\ Contains(db[Blake3Key(checksum)], Target)

\* C6: a hash mismatch is not an error: the file stays on disk with the
\* hashed content, the store is still executed and the file name returned.
C6_MismatchIsNotFatal ==
    /\ error.stage # "compare"
    /\ (Mismatch /\ pc \in {"save_hash", "store", "returned"})
       => (Exists(Target) /\ Blake3Hash(disk[Target]) = checksum)
    /\ (Mismatch /\ pc = "returned")
       => (store_called /\ model_file_name = FileName(cur))

C6_Witness ==
    /\ pc = "returned"
    /\ Mismatch
    /\ store_called
    /\ Exists(Target)

\* C7: a response with a non-success status never becomes a completed
\* download: the function does not return its file name and nothing is
\* stored in the cache for it.
C7_NonSuccessStatusNotAccepted ==
    (response # NoResponse /\ ~IsSuccess(response.status))
    => /\ outcome # "downloaded"
       /\ pc # "returned"
       /\ ~store_called
       /\ db = db0

\* C8: a successful store leaves, under every key of the file, the previous
\* list with the canonical path appended.
C8_StoreAppends ==
    [][(pc = "store" /\ pc' = "returned")
       => \A i \in 1..Len(StoreKeys(cur)) :
             /\ StoreKeys(cur)[i] \in DOMAIN db'
             /\ db'[StoreKeys(cur)[i]] =
                   Append(Locations(db, StoreKeys(cur)[i]), Target)]_vars

\* C9: after a download with computed hash h was stored for path p, the
\* lookup by h returns a record that lists the canonical form of p.
C9_LookupByComputedHashFindsPath ==
    pc = "returned"
    => /\ RetreiveByBlake3(db, checksum, TRUE).found
       /\ Contains(RetreiveByBlake3(db, checksum, TRUE).locations,
                   Canonicalize(TargetFilePath))

\* C10: a record is never deleted nor overwritten: every list is a prefix of
\* what it is in the next state.
C10_RecordsOnlyGrow ==
    [][\A k \in DOMAIN db :
          /\ k \in DOMAIN db'
          /\ IsPrefix(db[k], db'[k])]_vars

\* C11: when the store has returned Ok, its writes are on disk: a crash
\* right after the return leaves every record of the file as the store made it.
C11_StoreIsDurableOnReturn ==
    [][(pc = "returned" /\ result' = "crashed")
       => \A i \in 1..Len(StoreKeys(cur)) :
             /\ StoreKeys(cur)[i] \in DOMAIN db'
             /\ db'[StoreKeys(cur)[i]] = db[StoreKeys(cur)[i]]]_vars

C11_Witness ==
    /\ result = "crashed"
    /\ store_result = "ok"
    /\ db # db0
    /\ Contains(Locations(db, FileIdKey(cur)), Target)

\* C16: a response without a content length ends the download with an error
\* before the destination is created or written, and nothing is stored; no
\* later stage ever works on a response without a length.
C16_NoLengthFailsBeforeWriting ==
    /\ response # NoResponse => response.content_length # NoLength
    /\ (result = "err" /\ error.stage = "content_length")
       => /\ disk = disk0
          /\ db = db0
          /\ ~store_called

C16_Witness ==
    /\ result = "err"
    /\ error.stage = "content_length"
    /\ attempts = 1
    /\ disk = disk0

\* C17: when the store fails after a completed download, the run ends with
\* the error of the store, and the downloaded file is still on disk with the
\* content that was hashed.
C17_StoreFailureIsSurfaced ==
    store_result = "err"
    => /\ pc = "done"
       /\ result = "err"
       /\ error.stage = "store"
       /\ Exists(Target)
       /\ Blake3Hash(disk[Target]) = sidecar[Target]

C17_Witness ==
    /\ store_result = "err"
    /\ result = "err"
    /\ error = [stage |-> "store", kind |-> "db"]
    /\ exhausted /\ flushed /\ hashed
    /\ Exists(Target)

\* C18: when a read of the cache fails, in the lookup before the download or
\* inside the store, the run ends with an error.
C18_CacheReadFailurePropagates ==
    read_failed => (pc = "done" /\ result = "err")

\* C19: the lookup made for a file finds the record stored under a hash that
\* differs from the declared hash of the file in letter case only.
C19_LookupIgnoresCase ==
    (cur # 0 /\ catalog[cur].blake3 # NoHash)
    => \A g \in FileIds :
          (/\ catalog[g].blake3 # NoHash
           /\ ToUppercase(catalog[g].blake3) = ToUppercase(catalog[cur].blake3)
           /\ Blake3Key(catalog[g].blake3) \in DOMAIN db0)
          => /\ RetreiveByBlake3(db0, catalog[cur].blake3, TRUE).found
             /\ RetreiveByBlake3(db0, catalog[cur].blake3, TRUE).locations
                   = db0[Blake3Key(catalog[g].blake3)]

\* C20: every recorded location is a canonical absolute path, and a store
\* whose canonicalization fails writes no key.
C20_LocationsAreCanonical ==
    /\ \A k \in DOMAIN db : \A i \in 1..Len(db[k]) : IsCanonical(db[k][i])
    /\ (result = "err" /\ error = [stage |-> "store", kind |-> "canonicalize"])
       => (db = db0 /\ durable = db0)

C20_Witness ==
    /\ pc = "returned"
    /\ dest = "b"
    /\ TargetFilePath # Target
    /\ Contains(Locations(db, FileIdKey(cur)), Target)
    /\ ~Contains(Locations(db0, FileIdKey(cur)), Target)

\* the task has been executed at least once and retry_notify has returned
RetryEnded == rpc \in {"succeeded", "gave_up", "aborted"}

\* C12: the task wrapped by the retry policy is executed at most max_retry
\* times.
C12_AtMostMaxRetryAttempts ==
    tries <= config.max_retry

\* C13: whatever the configuration and however the task fails, retry_notify
\* eventually returns.
C13_RetryEventuallyStops ==
    <>RetryEnded

C13_Witness ==
    /\ rpc = "gave_up"
    /\ tries > 1
    /\ notified = tries - 1
    /\ elapsed > 0

\* C14: after a fatal error of the task (the request cannot be built) no
\* notification, wait or further attempt follows: the operation is aborted.
C14_FatalErrorAborts ==
    (last_error = "build" /\ rpc # "failed")
    => rpc \in {"aborted", "gave_up"}

\* C15: the maximum elapsed time of the policy is strictly greater than
\* max_retry times the time allowed for an attempt.
C15_MaxElapsedExceedsTimeouts ==
    rpc # "idle"
    => policy.max_elapsed_time
          > config.max_retry * max_timeout_secs * TicksPerSec

\* the stages of download_single_model_file after File::create
AfterCreateStages ==
    {"stream", "flush", "hash", "compare", "save_hash", "store", "returned"}

\* C22: the file holds the received chunks in the order they came; the hash
\* is computed only after the stream ended and the file was flushed, and it
\* is the hash of the received chunks in that order.
C22_HashOfChunksInOrder ==
    /\ pc \in {"stream", "flush", "hash"} => disk[Target] = received
    /\ hashed => exhausted /\ flushed
    /\ pc \in {"compare", "save_hash", "store", "returned"}
       => /\ hashed
          /\ checksum = Blake3Hash(received)

\* two different chunks were received, written and hashed
C22_Witness ==
    /\ pc = "compare"
    /\ Len(received) = 2
    /\ received[1] # received[2]
    /\ checksum = Blake3Hash(received)

\* C23: once the destination has been opened, the file holds the bytes this
\* download has received and nothing else, whatever was at the path before.
C23_CreateTruncates ==
    pc \in AfterCreateStages => disk[Target] = received

\* a download wrote bytes to a path where an earlier one had left bytes
C23_Witness ==
    /\ pc = "flush"
    /\ disk0[Target] # NoFile
    /\ disk0[Target] # <<>>
    /\ received # <<>>
    /\ disk[Target] = received

\* C24: while the body is streamed the position given to the progress bar
\* never decreases, never exceeds the declared content length and never
\* exceeds the number of chunks written to the file.
C24_PositionFollowsWrites ==
    [][(pc = "stream" /\ pc' \in {"stream", "flush"})
       => /\ position' >= position
          /\ position' <= response'.content_length
          /\ position' <= Len(disk'[Target])
          /\ position' > position => disk'[Target] # disk[Target]]_vars

\* the stream delivered more than the response declared and the position
\* stayed at the declared length
C24_Witness ==
    /\ pc = "stream"
    /\ Len(received) > response.content_length
    /\ position = response.content_length

\* every existing file listed under a blake3 key of the database d has, on
\* the disk k, the content whose hash is that key
HashRecordsMatch(d, k) ==
    \A key \in DOMAIN d :
        key[1] = "civitai:model:file:blake3"
        => \A i \in 1..Len(d[key]) :
              k[d[key][i]] # NoFile
              => ToUppercase(Blake3Hash(k[d[key][i]])) = ToUppercase(key[2])

\* the primary file was downloaded and stored earlier in this run
PrimaryStoredEarlier ==
    /\ cur # 0
    /\ cur # PrimaryFileId
    /\ target_meta_filename = FileName(PrimaryFileId)

\* C26: the run stops at the first file whose download fails: nothing more
\* happens, no readme is produced, and the records stored for a file
\* downloaded earlier in the run still hold its path.
C26_StopsAtFirstFailure ==
    (result = "err" /\ cur # 0)
    => /\ pc = "done"
       /\ readme_name = "<none>"
       /\ PrimaryStoredEarlier
          => \A i \in 1..Len(StoreKeys(PrimaryFileId)) :
                Contains(Locations(db, StoreKeys(PrimaryFileId)[i]),
                         Canonicalize(Join(dest, FileName(PrimaryFileId))))

\* what of C26 does not depend on the records: the run ends at the failure
StopsAtFirstFailure ==
    (result = "err" /\ cur # 0)
    => /\ pc = "done"
       /\ readme_name = "<none>"

\* C27: when the run has ended, every existing file listed in a hash-indexed
\* record has the content of that hash, provided it was so when the last
\* file was started.
C27_HashRecordsMatchContent ==
    (pc = "done" /\ HashRecordsMatch(db0, disk0))
    => HashRecordsMatch(db, disk)

\* C28: a store that returns an error has changed no record.
C28_StoreIsAllOrNothing ==
    store_result = "err" => db = db0

\* C29: when the download of a file has returned its name, the destination
\* holds as many bytes as the response declared.
C29_WrittenEqualsDeclaredLength ==
    pc = "returned" => Len(disk[Target]) = response.content_length

\* C30: after a run without error the name handed to the readme generation
\* is the name of the primary file.
C30_ReadmeNamedAfterPrimaryFile ==
    result = "ok"
    => /\ readme_name # ""
       /\ readme_name = FileName(PrimaryFileId)

\* C21: notify_op has been called once for each failed execution that was
\* followed by a wait and another execution, with the error of that
\* execution and the length of that wait; it is called neither for the
\* execution that succeeds nor for the failure that ends the operation.
C21_NotifiedOncePerRetry ==
    /\ rpc = "sleeping"
       => /\ notified = tries
          /\ notice = [error |-> last_error, wait |-> wait]
    /\ rpc \in {"idle", "attempt"}
       => /\ notified = tries
          /\ notice = NoNotice
    /\ rpc \in {"failed", "succeeded", "gave_up", "aborted"}
       => /\ notified = tries - 1
          /\ notice = NoNotice

\* the operation ended with a failure after two notified retries
C21_Witness ==
    /\ rpc = "gave_up"
    /\ tries = 3
    /\ notified = 2

\* the keys both calls maintain
SharedKeys ==
    {k \in DOMAIN db :
        \A t \in Callers :
           Contains(StoreKeys(calls[t].file), k)}

\* both calls have returned Ok
BothStored == \A t \in Callers : calls[t].result = "ok"

\* C25: after two concurrent stores have both returned Ok, every record
\* they share holds the paths of both.
C25_NoLostUpdate ==
    BothStored
    => \A k \in SharedKeys, t \in Callers :
          Contains(db[k], LocationStr(CallLocation(t)))

\* what of C25 does not depend on the reads succeeding: the mutex is held
\* from the first read to the return, by one thread at a time, and when
\* every db.get returned Ok no path is lost
StoresAreSerialized ==
    /\ \A t \in Callers :
          calls[t].at \in {"get", "insert", "flush"} <=> lock = t
    /\ (BothStored /\ \A t \in Callers : ~calls[t].read_err)
       => \A k \in SharedKeys, t \in Callers :
             Contains(db[k], LocationStr(CallLocation(t)))

====
